---- MODULE Spec2Model ----
(***************************************************************************)
(* Model of dual_phase_serial.py: the hex codec, the passive listen phase, *)
(* the active query phase and the session run by main().                   *)
(*                                                                         *)
(* Text is a sequence of one-character strings.  Bytes are 0..255.         *)
(* The link (serial.Serial) and the Frame Reader                           *)
(* (_read_one_frame_from_serial) are external: every call on them is a     *)
(* nondeterministic choice over the outcomes the call can have.            *)
(* Time is counted in ticks; it passes inside blocking calls only.         *)
(***************************************************************************)
EXTENDS Integers, Sequences, FiniteSets, TLC

(***************************************************************************)
(* Bounds of the model.                                                    *)
(***************************************************************************)
MaxRequests == 2        \* most --request values on a command line
MaxResponses == 2       \* largest --responses-per-request
MaxDelay == 1           \* largest --post-write-delay, in ticks
MaxInitial == 2         \* largest --initial-seconds, in ticks
MaxLatency == 2         \* longest Frame Reader call, in ticks
MaxInstantReads == 1    \* most Frame Reader calls of a session that take no time

(***************************************************************************)
(* Hex codec.                                                              *)
(***************************************************************************)
HexDigits == <<"0", "1", "2", "3", "4", "5", "6", "7",
               "8", "9", "A", "B", "C", "D", "E", "F">>

LowerHex == <<"0", "1", "2", "3", "4", "5", "6", "7",
              "8", "9", "a", "b", "c", "d", "e", "f">>

\* The value of character c as a digit, or 99 when c is no digit of any base.
DigitValue(c) ==
    IF \E i \in 1..16 : HexDigits[i] = c
    THEN (CHOOSE i \in 1..16 : HexDigits[i] = c) - 1
    ELSE IF \E i \in 1..16 : LowerHex[i] = c
         THEN (CHOOSE i \in 1..16 : LowerHex[i] = c) - 1
         ELSE 99

\* f"{b:02X}"
Hex2(b) == <<HexDigits[(b \div 16) + 1], HexDigits[(b % 16) + 1]>>

RECURSIVE _format_bytes(_)
\* ", ".join(f"{b:02X}" for b in data)
_format_bytes(data) ==
    IF Len(data) = 0 THEN <<>>
    ELSE IF Len(data) = 1 THEN Hex2(data[1])
    ELSE Hex2(data[1]) \o <<",", " ">> \o _format_bytes(Tail(data))

IsSeparator(c) == c \in {" ", ",", ";"}

RECURSIVE SplitFrom(_, _, _)
\* text.replace(",", " ").replace(";", " ").split(): the maximal runs of
\* non-separator characters, in order.  cur is the run being collected.
SplitFrom(text, i, cur) ==
    IF i > Len(text)
    THEN IF cur = <<>> THEN <<>> ELSE <<cur>>
    ELSE IF IsSeparator(text[i])
         THEN IF cur = <<>>
              THEN SplitFrom(text, i + 1, <<>>)
              ELSE <<cur>> \o SplitFrom(text, i + 1, <<>>)
         ELSE SplitFrom(text, i + 1, Append(cur, text[i]))

Tokens(text) == SplitFrom(text, 1, <<>>)

\* The digits of a literal after sign and prefix: digits of the base, single
\* underscores between digits only, at least one digit.
DigitsWellFormed(s, base) ==
    /\ Len(s) > 0
    /\ s[1] # "_"
    /\ s[Len(s)] # "_"
    /\ \A i \in 1..Len(s) : s[i] = "_" \/ DigitValue(s[i]) < base
    /\ \A i \in 1..(Len(s) - 1) : ~(s[i] = "_" /\ s[i + 1] = "_")

RECURSIVE DigitsValue(_, _, _)
\* Value of the digits of s in the base, underscores skipped, acc so far.
DigitsValue(s, base, acc) ==
    IF s = <<>> THEN acc
    ELSE IF s[1] = "_" THEN DigitsValue(Tail(s), base, acc)
    ELSE DigitsValue(Tail(s), base, acc * base + DigitValue(s[1]))

Drop(s, n) == SubSeq(s, n + 1, Len(s))

\* The base a base-0 literal selects by its prefix: 16, 8, 2, or 10.
PrefixBase(s) ==
    IF Len(s) >= 2 /\ s[1] = "0"
    THEN IF s[2] \in {"x", "X"} THEN 16
         ELSE IF s[2] \in {"o", "O"} THEN 8
         ELSE IF s[2] \in {"b", "B"} THEN 2
         ELSE 10
    ELSE 10

\* int(token, 0): an optional sign, then a literal whose prefix selects the
\* base.  A prefix may be followed by one underscore.  A decimal literal
\* that starts with 0 must be all zeroes.
IntBase0(token) ==
    LET neg == Len(token) > 0 /\ token[1] = "-"
        unsigned == IF Len(token) > 0 /\ token[1] \in {"+", "-"}
                    THEN Tail(token) ELSE token
        base == PrefixBase(unsigned)
        afterPrefix == IF base = 10 THEN unsigned ELSE Drop(unsigned, 2)
        digits == IF base # 10 /\ Len(afterPrefix) > 0 /\ afterPrefix[1] = "_"
                  THEN Tail(afterPrefix) ELSE afterPrefix
        wellFormed == DigitsWellFormed(digits, base)
        magnitude == IF wellFormed THEN DigitsValue(digits, base, 0) ELSE 0
        oldOctal == base = 10 /\ wellFormed /\ digits[1] = "0" /\ magnitude # 0
    IN  [ok |-> wellFormed /\ ~oldOctal,
         value |-> IF neg THEN 0 - magnitude ELSE magnitude]

InByteRange(value) == 0 <= value /\ value <= 255

RECURSIVE ConvertTokens_SkipsBad(_)
\* Variant: a token that does not parse or is out of range is left out.
ConvertTokens_SkipsBad(tokens) ==
    IF tokens = <<>> THEN [ok |-> TRUE, bytes |-> <<>>]
    ELSE LET r == IntBase0(tokens[1])
             rest == ConvertTokens_SkipsBad(Tail(tokens))
         IN  IF ~r.ok \/ ~InByteRange(r.value)
             THEN rest
             ELSE [ok |-> TRUE, bytes |-> <<r.value>> \o rest.bytes]

RECURSIVE ConvertTokens(_)
\* The loop over tokens: stops at the first token that does not parse or is
\* out of byte range; no partial result is returned on failure.
ConvertTokens(tokens) ==
    IF tokens = <<>> THEN [ok |-> TRUE, bytes |-> <<>>]
    ELSE LET r == IntBase0(tokens[1])
         IN  IF ~r.ok \/ ~InByteRange(r.value)
             THEN [ok |-> FALSE, bytes |-> <<>>]
             ELSE LET rest == ConvertTokens(Tail(tokens))
                  IN  IF rest.ok
                      THEN [ok |-> TRUE, bytes |-> <<r.value>> \o rest.bytes]
                      ELSE [ok |-> FALSE, bytes |-> <<>>]

\* _parse_hex_sequence(text): ok = FALSE stands for the ValueError.
_parse_hex_sequence(text) ==
    IF text = <<>> THEN [ok |-> FALSE, bytes |-> <<>>]
    ELSE IF Tokens(text) = <<>> THEN [ok |-> FALSE, bytes |-> <<>>]
    ELSE ConvertTokens(Tokens(text))

(***************************************************************************)
(* Inputs of a session.                                                    *)
(***************************************************************************)
ReqA == <<"0", "x", "7", "E", " ", "0", "x", "1", "4">>     \* bytes 7E 14
ReqB == <<"2", "1">>                                        \* byte 0x15, written in decimal
ReqBad == <<"7", "E", " ", "1", "4">>                       \* "7E" is no base-0 literal

RawTexts == {ReqA, ReqB, ReqBad}

RequestLists == UNION {[1..n -> RawTexts] : n \in 0..MaxRequests}

\* The frames the Frame Reader can deliver.
Frames == {<<126, 1>>, <<0>>}

\* "any": every outcome of a call is possible.  "silent": the device never
\* transmits, every Frame Reader call times out after at least one tick,
\* the link stays healthy and no signal arrives.
Environments == {"any", "silent"}

VARIABLES
    args,        \* argparse.Namespace: requests, responses_per_request,
                 \* post_write_delay, initial_seconds
    env,         \* behaviour of the device and the process environment
    pc,          \* position of main() and of the phase it is in
    rawIdx,      \* position of the parse loop in args.requests
    requests,    \* main: the parsed requests
    link,        \* serial.Serial: "unopened", "open", "closed"
    now,         \* time.time()
    deadline,    \* _listen_for_initial_values: deadline
    observed,    \* _listen_for_initial_values: observed
    reqIdx,      \* _send_requests_and_collect: req_idx
    respIdx,     \* _read_frames: idx
    pending,     \* exception leaving the with block, "none" when there is none
    result,      \* "running", "exit0", "exit2", or the exception main() died of
    log          \* history: link operations and printed lines, in order

vars == <<args, env, pc, rawIdx, requests, link, now, deadline, observed,
          reqIdx, respIdx, pending, result, log>>

\* One entry of the history.  who is the function acting ("main", "listen",
\* "query"); res is the outcome of a link operation or the kind of a printed
\* line; t0 and t1 are the times a passive Frame Reader call started and ended.
Ev(op, who, res, req, idx, data, t0, t1) ==
    [op |-> op, who |-> who, res |-> res, req |-> req, idx |-> idx,
     data |-> data, t0 |-> t0, t1 |-> t1]

LinkEv(op, who, res, data) == Ev(op, who, res, 0, 0, data, 0, 0)

PrintEv(who, kind, req, idx, data) == Ev("print", who, kind, req, idx, data, 0, 0)

\* Command lines that exercise the passive phase: any listening window, at
\* most one request, one response per request.
ListenArgs ==
    [requests : {l \in RequestLists : Len(l) <= 1},
     responses_per_request : {1},
     post_write_delay : {MaxDelay},
     initial_seconds : 0..MaxInitial]

\* Command lines that exercise the active phase: any requests, any number of
\* responses per request, any settling delay, no listening window.
QueryArgs ==
    [requests : RequestLists,
     responses_per_request : (-1)..MaxResponses,
     post_write_delay : (-1)..MaxDelay,
     initial_seconds : {0}]

Init ==
    /\ args \in ListenArgs \cup QueryArgs
    /\ env \in Environments
    /\ pc = "parse"
    /\ rawIdx = 1
    /\ requests = <<>>
    /\ link = "unopened"
    /\ now = 0
    /\ deadline = 0
    /\ observed = 0
    /\ reqIdx = 0
    /\ respIdx = 0
    /\ pending = "none"
    /\ result = "running"
    /\ log = <<>>

(***************************************************************************)
(* main(): parsing the --request values.                                   *)
(***************************************************************************)
\* Variant: every offending value is reported before main() gives up.
OnParseError_ReportsAll(raw) ==
    /\ log' = Append(log, PrintEv("main", "parse_error", rawIdx, 0, raw))
    /\ result' = "exit2"
    /\ rawIdx' = rawIdx + 1
    /\ pc' = IF rawIdx = Len(args.requests) THEN "done" ELSE "parse"
    /\ UNCHANGED requests

\* Variant: the offending value is reported and skipped.
OnParseError_Skip(raw) ==
    /\ log' = Append(log, PrintEv("main", "parse_error", rawIdx, 0, raw))
    /\ rawIdx' = rawIdx + 1
    /\ UNCHANGED <<requests, result, pc>>

\* except ValueError: print to stderr, return 2.
OnParseError(raw) ==
    /\ log' = Append(log, PrintEv("main", "parse_error", rawIdx, 0, raw))
    /\ result' = "exit2"
    /\ pc' = "done"
    /\ UNCHANGED <<rawIdx, requests>>

\* One iteration of the loop over args.requests.
ParseRequest ==
    /\ pc = "parse"
    /\ rawIdx <= Len(args.requests)
    /\ LET raw == args.requests[rawIdx]
           r == _parse_hex_sequence(raw)
       IN  IF r.ok
           THEN /\ requests' = Append(requests, r.bytes)
                /\ rawIdx' = rawIdx + 1
                /\ UNCHANGED <<pc, result, log>>
           ELSE OnParseError(raw)
    /\ UNCHANGED <<args, env, link, now, deadline, observed, reqIdx, respIdx,
                   pending>>

(***************************************************************************)
(* main(): the with block.                                                 *)
(***************************************************************************)
\* Variant: the passive phase is not run.
AfterOpen_SkipListen == "after_listen"

\* Where main() goes once the link is open: the first statement of the block.
AfterOpen == "listen_start"

\* print("Opening ..."), then serial.Serial(...) succeeds.
OpenLink ==
    /\ pc = "parse"
    /\ rawIdx > Len(args.requests)
    /\ link' = "open"
    /\ log' = log \o <<PrintEv("main", "opening", 0, 0, <<>>),
                       LinkEv("open", "main", "ok", <<>>)>>
    /\ pc' = AfterOpen
    /\ UNCHANGED <<args, env, rawIdx, requests, now, deadline, observed,
                   reqIdx, respIdx, pending, result>>

\* serial.Serial(...) raises: the with block is never entered.
OpenFails ==
    /\ pc = "parse"
    /\ rawIdx > Len(args.requests)
    /\ env = "any"
    /\ log' = log \o <<PrintEv("main", "opening", 0, 0, <<>>),
                       LinkEv("open", "main", "error", <<>>)>>
    /\ result' = "LinkError"
    /\ pc' = "done"
    /\ UNCHANGED <<args, env, rawIdx, requests, link, now, deadline, observed,
                   reqIdx, respIdx, pending>>

\* Variant: the exception propagates without the link being closed.
Raise_NoClose(exc) ==
    /\ pending' = exc
    /\ pc' = "done"

\* An exception leaves the with block: __exit__ runs next.
Raise(exc) ==
    /\ pending' = exc
    /\ pc' = "exit_with"

\* Serial.__exit__: close the link; then the pending exception propagates
\* out of main(), or main() returns 0.
ExitWith ==
    /\ pc = "exit_with"
    /\ link' = "closed"
    /\ log' = Append(log, LinkEv("close", "main", "ok", <<>>))
    /\ result' = IF pending = "none" THEN "exit0" ELSE pending
    /\ pc' = "done"
    /\ UNCHANGED <<args, env, rawIdx, requests, now, deadline, observed,
                   reqIdx, respIdx, pending>>

(***************************************************************************)
(* _listen_for_initial_values.                                             *)
(***************************************************************************)
\* Variant: a call is still started at the deadline.
DeadlineNotReached_Inclusive(t, dl) == t <= dl

\* while time.time() < deadline
DeadlineNotReached(t, dl) == t < dl

\* The Frame Reader calls of the passive phase made so far that took no time.
InstantReads ==
    Cardinality({i \in 1..Len(log) :
        log[i].op = "read" /\ log[i].who = "listen" /\ log[i].t1 = log[i].t0})

\* How long a Frame Reader call of the passive phase can take.
Latencies ==
    IF env = "silent" \/ InstantReads >= MaxInstantReads
    THEN 1..MaxLatency
    ELSE 0..MaxLatency

\* Variant: the phase polls the device before listening.
ListenStart_Polls ==
    /\ pc = "listen_start"
    /\ deadline' = now + args.initial_seconds
    /\ observed' = 0
    /\ log' = Append(log, LinkEv("write", "listen", "ok", <<0>>))
    /\ pc' = "listen_loop"
    /\ UNCHANGED <<args, env, rawIdx, requests, link, now, reqIdx, respIdx,
                   pending, result>>

\* deadline = time.time() + initial_seconds; observed = 0
ListenStart ==
    /\ pc = "listen_start"
    /\ deadline' = now + args.initial_seconds
    /\ observed' = 0
    /\ pc' = "listen_loop"
    /\ UNCHANGED <<args, env, rawIdx, requests, link, now, reqIdx, respIdx,
                   pending, result, log>>

\* Variant: the deadline is checked again after the call and a late frame
\* is dropped.
ListenReadFrame_DropsLate ==
    /\ pc = "listen_loop"
    /\ DeadlineNotReached(now, deadline)
    /\ env = "any"
    /\ \E frame \in Frames, d \in Latencies :
        /\ now' = now + d
        /\ IF now + d >= deadline
           THEN /\ observed' = observed
                /\ log' = Append(log,
                     Ev("read", "listen", "frame", 0, 0, frame, now, now + d))
           ELSE /\ observed' = observed + 1
                /\ log' = log \o
                     <<Ev("read", "listen", "frame", 0, 0, frame, now, now + d),
                       PrintEv("listen", "okamzite", 0, observed + 1,
                               _format_bytes(frame))>>
    /\ UNCHANGED <<args, env, pc, rawIdx, requests, link, deadline, reqIdx,
                   respIdx, pending, result>>

\* The loop body when the Frame Reader returns a frame:
\* observed += 1; print("Okamzite frame ...").
ListenReadFrame ==
    /\ pc = "listen_loop"
    /\ DeadlineNotReached(now, deadline)
    /\ env = "any"
    /\ \E frame \in Frames, d \in Latencies :
        /\ now' = now + d
        /\ observed' = observed + 1
        /\ log' = log \o
             <<Ev("read", "listen", "frame", 0, 0, frame, now, now + d),
               PrintEv("listen", "okamzite", 0, observed + 1,
                       _format_bytes(frame))>>
    /\ UNCHANGED <<args, env, pc, rawIdx, requests, link, deadline, reqIdx,
                   respIdx, pending, result>>

\* Variant: the timeout is not handled.
OnListenTimeout_Raise ==
    /\ Raise("TimeoutError")
    /\ UNCHANGED observed

\* Variant: a call that timed out consumes an index.
OnListenTimeout_Counts ==
    /\ pc' = IF now' >= deadline THEN "listen_end" ELSE "listen_loop"
    /\ observed' = observed + 1
    /\ UNCHANGED pending

\* except TimeoutError: if time.time() >= deadline: break; continue
OnListenTimeout ==
    /\ pc' = IF now' >= deadline THEN "listen_end" ELSE "listen_loop"
    /\ UNCHANGED <<observed, pending>>

\* The loop body when the Frame Reader raises TimeoutError.
ListenReadTimeout ==
    /\ pc = "listen_loop"
    /\ DeadlineNotReached(now, deadline)
    /\ \E d \in Latencies :
        /\ now' = now + d
        /\ log' = Append(log,
             Ev("read", "listen", "timeout", 0, 0, <<>>, now, now + d))
    /\ OnListenTimeout
    /\ UNCHANGED <<args, env, rawIdx, requests, link, deadline, reqIdx,
                   respIdx, result>>

\* Variant: the loop absorbs every exception, not only TimeoutError.
ListenReadFails_Absorbed ==
    /\ pc = "listen_loop"
    /\ DeadlineNotReached(now, deadline)
    /\ env = "any"
    /\ log' = Append(log,
         Ev("read", "listen", "error", 0, 0, <<>>, now, now))
    /\ pc' = IF now + 1 >= deadline THEN "listen_end" ELSE "listen_loop"
    /\ now' = now + 1
    /\ UNCHANGED <<args, env, rawIdx, requests, link, deadline, observed,
                   reqIdx, respIdx, pending, result>>

\* The Frame Reader raises something that is no TimeoutError (the serial
\* layer failed): no handler in the loop, it leaves the with block.
ListenReadFails ==
    /\ pc = "listen_loop"
    /\ DeadlineNotReached(now, deadline)
    /\ env = "any"
    /\ log' = Append(log,
         Ev("read", "listen", "error", 0, 0, <<>>, now, now))
    /\ Raise("LinkError")
    /\ UNCHANGED <<args, env, rawIdx, requests, link, now, deadline, observed,
                   reqIdx, respIdx, result>>

\* Variant: a single frame is also reported as no frame.
ListenEnd_ReportsUnlessSeveral ==
    /\ pc \in {"listen_loop", "listen_end"}
    /\ pc = "listen_loop" => ~DeadlineNotReached(now, deadline)
    /\ log' = log \o
         (IF observed <= 1
          THEN <<PrintEv("listen", "none_captured", 0, 0, <<>>)>>
          ELSE <<>>) \o
         <<Ev("return", "listen", "ok", 0, observed, <<>>, now, now)>>
    /\ pc' = "after_listen"
    /\ UNCHANGED <<args, env, rawIdx, requests, link, now, deadline, observed,
                   reqIdx, respIdx, pending, result>>

\* The loop condition fails, or break: the lines after the loop, then return
\* to main().
ListenEnd ==
    /\ pc \in {"listen_loop", "listen_end"}
    /\ pc = "listen_loop" => ~DeadlineNotReached(now, deadline)
    /\ log' = log \o
         (IF observed = 0
          THEN <<PrintEv("listen", "none_captured", 0, 0, <<>>)>>
          ELSE <<>>) \o
         <<Ev("return", "listen", "ok", 0, observed, <<>>, now, now)>>
    /\ pc' = "after_listen"
    /\ UNCHANGED <<args, env, rawIdx, requests, link, now, deadline, observed,
                   reqIdx, respIdx, pending, result>>

(***************************************************************************)
(* main(): after the passive phase.                                        *)
(***************************************************************************)
\* Variant: nothing is printed when there are no requests.
AfterListen_NoReport ==
    /\ pc = "after_listen"
    /\ IF requests # <<>>
       THEN /\ reqIdx' = 1
            /\ pc' = "write"
       ELSE /\ pc' = "exit_with"
            /\ UNCHANGED reqIdx
    /\ UNCHANGED <<args, env, rawIdx, requests, link, now, deadline, observed,
                   respIdx, pending, result, log>>

\* if requests: _send_requests_and_collect(...) else: print("No additional
\* requests ...").  The for loop over no requests ends at once.
AfterListen ==
    /\ pc = "after_listen"
    /\ IF requests # <<>>
       THEN /\ reqIdx' = 1
            /\ pc' = "write"
            /\ UNCHANGED log
       ELSE /\ log' = Append(log, PrintEv("main", "no_requests", 0, 0, <<>>))
            /\ pc' = "exit_with"
            /\ UNCHANGED reqIdx
    /\ UNCHANGED <<args, env, rawIdx, requests, link, now, deadline, observed,
                   respIdx, pending, result>>

(***************************************************************************)
(* _send_requests_and_collect and _read_frames.                            *)
(***************************************************************************)
\* Variant: the loop body runs at least once.
RangeDone_AtLeastOnce(idx, count) == idx > count /\ idx > 1

\* Variant: range(1, count).
RangeDone_OffByOne(idx, count) == idx >= count

\* for idx in range(1, count + 1): the loop is over when idx passed count.
RangeDone(idx, count) == idx > count

\* ser.write(request)
QueryWrite ==
    /\ pc = "write"
    /\ log' = Append(log, Ev("write", "query", "ok", reqIdx, 0,
                             requests[reqIdx], 0, 0))
    /\ pc' = "flush"
    /\ UNCHANGED <<args, env, rawIdx, requests, link, now, deadline, observed,
                   reqIdx, respIdx, pending, result>>

\* ser.flush(); print("Sent request ...")
QueryFlush ==
    /\ pc = "flush"
    /\ log' = log \o
         <<Ev("flush", "query", "ok", reqIdx, 0, <<>>, 0, 0),
           PrintEv("query", "sent", reqIdx, 0,
                   _format_bytes(requests[reqIdx]))>>
    /\ pc' = "delay"
    /\ UNCHANGED <<args, env, rawIdx, requests, link, now, deadline, observed,
                   reqIdx, respIdx, pending, result>>

\* ser.write or ser.flush raises (the serial layer failed).
QueryWriteFails ==
    /\ pc \in {"write", "flush"}
    /\ env = "any"
    /\ log' = Append(log, Ev(pc, "query", "error", reqIdx, 0, <<>>, 0, 0))
    /\ Raise("LinkError")
    /\ UNCHANGED <<args, env, rawIdx, requests, link, now, deadline, observed,
                   reqIdx, respIdx, result>>

\* _read_frames entry: if after_write_delay: time.sleep(after_write_delay).
\* time.sleep raises ValueError on a negative length.  Then the loop starts.
QueryDelay ==
    /\ pc = "delay"
    /\ IF args.post_write_delay = 0
       THEN /\ respIdx' = 1
            /\ pc' = "read"
            /\ UNCHANGED <<log, pending>>
       ELSE IF args.post_write_delay < 0
       THEN /\ log' = Append(log, Ev("sleep", "query", "error", reqIdx,
                                     args.post_write_delay, <<>>, 0, 0))
            /\ Raise("ValueError")
            /\ UNCHANGED respIdx
       ELSE /\ log' = Append(log, Ev("sleep", "query", "ok", reqIdx,
                                     args.post_write_delay, <<>>, 0, 0))
            /\ respIdx' = 1
            /\ pc' = "read"
            /\ UNCHANGED pending
    /\ UNCHANGED <<args, env, rawIdx, requests, link, now, deadline, observed,
                   reqIdx, result>>

\* Variant: the settling wait is repeated before every read.
QueryReadFrame_SleepsAgain ==
    /\ pc = "read"
    /\ ~RangeDone(respIdx, args.responses_per_request)
    /\ env = "any"
    /\ \E frame \in Frames :
        log' = log \o
          <<Ev("sleep", "query", "ok", reqIdx, args.post_write_delay, <<>>,
               0, 0),
            Ev("read", "query", "frame", reqIdx, respIdx, frame, 0, 0),
            PrintEv("query", "response", reqIdx, respIdx,
                    _format_bytes(frame))>>
    /\ respIdx' = respIdx + 1
    /\ UNCHANGED <<args, env, pc, rawIdx, requests, link, now, deadline,
                   observed, reqIdx, pending, result>>

\* The loop body of _read_frames when the Frame Reader returns a frame.
QueryReadFrame ==
    /\ pc = "read"
    /\ ~RangeDone(respIdx, args.responses_per_request)
    /\ env = "any"
    /\ \E frame \in Frames :
        log' = log \o
          <<Ev("read", "query", "frame", reqIdx, respIdx, frame, 0, 0),
            PrintEv("query", "response", reqIdx, respIdx,
                    _format_bytes(frame))>>
    /\ respIdx' = respIdx + 1
    /\ UNCHANGED <<args, env, pc, rawIdx, requests, link, now, deadline,
                   observed, reqIdx, pending, result>>

\* Variant: the call is retried after a timeout.
QueryReadTimeout_Retry ==
    /\ pc = "read"
    /\ ~RangeDone(respIdx, args.responses_per_request)
    /\ log' = Append(log,
         Ev("read", "query", "timeout", reqIdx, respIdx, <<>>, 0, 0))
    /\ UNCHANGED <<args, env, pc, rawIdx, requests, link, now, deadline,
                   observed, reqIdx, respIdx, pending, result>>

\* The Frame Reader raises TimeoutError in _read_frames: no handler there nor
\* in _send_requests_and_collect.
QueryReadTimeout ==
    /\ pc = "read"
    /\ ~RangeDone(respIdx, args.responses_per_request)
    /\ log' = Append(log,
         Ev("read", "query", "timeout", reqIdx, respIdx, <<>>, 0, 0))
    /\ Raise("TimeoutError")
    /\ UNCHANGED <<args, env, rawIdx, requests, link, now, deadline, observed,
                   reqIdx, respIdx, result>>

\* The Frame Reader raises something else in _read_frames.
QueryReadFails ==
    /\ pc = "read"
    /\ ~RangeDone(respIdx, args.responses_per_request)
    /\ env = "any"
    /\ log' = Append(log,
         Ev("read", "query", "error", reqIdx, respIdx, <<>>, 0, 0))
    /\ Raise("LinkError")
    /\ UNCHANGED <<args, env, rawIdx, requests, link, now, deadline, observed,
                   reqIdx, respIdx, result>>

\* _read_frames returns: the next request, or the end of the phase.
QueryNext ==
    /\ pc = "read"
    /\ RangeDone(respIdx, args.responses_per_request)
    /\ IF reqIdx < Len(requests)
       THEN /\ reqIdx' = reqIdx + 1
            /\ pc' = "write"
       ELSE /\ pc' = "exit_with"
            /\ UNCHANGED reqIdx
    /\ UNCHANGED <<args, env, rawIdx, requests, link, now, deadline, observed,
                   respIdx, pending, result, log>>

(***************************************************************************)
(* Interruption (KeyboardInterrupt) inside a blocking call of the session. *)
(***************************************************************************)
\* The blocking call main() is about to make, "none" when it is not at one.
BlockingCall ==
    IF pc = "listen_loop" /\ DeadlineNotReached(now, deadline) THEN "read"
    ELSE IF pc \in {"write", "flush"} THEN pc
    ELSE IF pc = "delay" /\ args.post_write_delay > 0 THEN "sleep"
    ELSE IF pc = "read" /\ ~RangeDone(respIdx, args.responses_per_request)
         THEN "read"
    ELSE "none"

\* Variant: the interruption is swallowed and the session goes on.
Interrupt_Ignored ==
    /\ env = "any"
    /\ BlockingCall # "none"
    /\ log' = Append(log,
         Ev(BlockingCall, IF pc = "listen_loop" THEN "listen" ELSE "query",
            "interrupt", reqIdx,
            IF pc = "delay" THEN args.post_write_delay
            ELSE IF pc = "read" THEN respIdx ELSE 0,
            <<>>, now, now))
    /\ UNCHANGED <<args, env, pc, rawIdx, requests, link, now, deadline,
                   observed, reqIdx, respIdx, pending, result>>

Interrupt ==
    /\ env = "any"
    /\ BlockingCall # "none"
    /\ log' = Append(log,
         Ev(BlockingCall, IF pc = "listen_loop" THEN "listen" ELSE "query",
            "interrupt", reqIdx,
            IF pc = "delay" THEN args.post_write_delay
            ELSE IF pc = "read" THEN respIdx ELSE 0,
            <<>>, now, now))
    /\ Raise("KeyboardInterrupt")
    /\ UNCHANGED <<args, env, rawIdx, requests, link, now, deadline, observed,
                   reqIdx, respIdx, result>>

Next ==
    \/ ParseRequest
    \/ OpenLink
    \/ OpenFails
    \/ ListenStart
    \/ ListenReadFrame
    \/ ListenReadTimeout
    \/ ListenReadFails
    \/ ListenEnd
    \/ AfterListen
    \/ QueryWrite
    \/ QueryFlush
    \/ QueryWriteFails
    \/ QueryDelay
    \/ QueryReadFrame
    \/ QueryReadTimeout
    \/ QueryReadFails
    \/ QueryNext
    \/ Interrupt
    \/ ExitWith

Spec == Init /\ [][Next]_vars

\* The program keeps running: a step that is possible is eventually taken.
\* The inputs are the command lines that exercise the passive phase.
InitFair ==
    /\ Init
    /\ args \in ListenArgs

FairSpec == InitFair /\ [][Next]_vars /\ WF_vars(Next)

(***************************************************************************)
(* Properties.                                                             *)
(***************************************************************************)
Positions == 1..Len(log)

IsOp(e, ops) == e.op \in ops

Opened == \E i \in Positions : log[i].op = "open" /\ log[i].res = "ok"

CloseCount == Cardinality({i \in Positions : log[i].op = "close"})

ListenReturnedBefore(i) ==
    \E j \in 1..(i - 1) : log[j].op = "return" /\ log[j].who = "listen"

IsListenRead(e) == e.op = "read" /\ e.who = "listen"

IsQueryTimeout(e) == e.op = "read" /\ e.who = "query" /\ e.res = "timeout"

\* Whether each raw text of the model parses.
ParsesOk == [t \in RawTexts |-> _parse_hex_sequence(t).ok]

SomeRequestUnparsable ==
    \E i \in 1..Len(args.requests) : ~ParsesOk[args.requests[i]]

\* C1: in every session the link, once opened, is closed exactly once on
\* every exit path (normal completion, TimeoutError of the active phase, any
\* other failure of a phase), the close comes after the open, and no read,
\* write or flush on the link follows the close.
C1_ClosedExactlyOnce ==
    /\ CloseCount <= 1
    /\ (pc = "done" /\ Opened) => (CloseCount = 1 /\ link = "closed")
    /\ \A i \in Positions : log[i].op = "close" =>
          /\ \E j \in 1..(i - 1) : log[j].op = "open" /\ log[j].res = "ok"
          /\ \A j \in (i + 1)..Len(log) :
                ~IsOp(log[j], {"read", "write", "flush"})

\* A session whose active phase raised TimeoutError ended with the link closed.
C1_Witness ==
    /\ pc = "done"
    /\ result = "TimeoutError"
    /\ link = "closed"
    /\ CloseCount = 1

\* C2: phases never interleave: every write of a request comes after
\* _listen_for_initial_values has returned, and no Frame Reader call of the
\* passive phase comes after a write.
C2_PhasesNeverInterleave ==
    /\ \A i \in Positions : log[i].op = "write" =>
          /\ ListenReturnedBefore(i)
          /\ \A j \in (i + 1)..Len(log) : ~IsListenRead(log[j])
    /\ pc \in {"write", "flush", "delay", "read"} =>
          ListenReturnedBefore(Len(log) + 1)

\* A request is written in a session whose passive phase made a Frame
\* Reader call.
C2_Witness ==
    \E i, j \in Positions :
        i < j /\ IsListenRead(log[i]) /\ log[j].op = "write"
              /\ log[j].res = "ok"

\* C3: a TimeoutError of a Frame Reader call in the active phase propagates
\* without retry: nothing but the close of the link follows that call (no
\* further read, no later request written), and main() does not return 0.
C3_QueryTimeoutPropagates ==
    \A i \in Positions : IsQueryTimeout(log[i]) =>
        /\ \A j \in (i + 1)..Len(log) : log[j].op = "close"
        /\ pc \in {"exit_with", "done"}
        /\ pending = "TimeoutError"
        /\ result # "exit0"
        /\ pc = "done" => result = "TimeoutError"

\* The first of two requests timed out on its second response; the second
\* request was never written.
C3_Witness ==
    /\ pc = "done"
    /\ result = "TimeoutError"
    /\ Len(requests) = 2
    /\ \E i \in Positions :
          IsQueryTimeout(log[i]) /\ log[i].req = 1 /\ log[i].idx = 2
    /\ ~\E i \in Positions : log[i].op = "write" /\ log[i].req = 2

\* C4: if any --request value fails to parse, main() returns 2 and nothing
\* happens on the link: it is never opened, nothing is written, no Frame
\* Reader call is made, even when other values are valid.
C4_ParseFailureBeforeLink ==
    SomeRequestUnparsable =>
        /\ link = "unopened"
        /\ \A i \in Positions :
              log[i].op = "print" /\ log[i].res = "parse_error"
        /\ pc \in {"parse", "done"}
        /\ pc = "done" => result = "exit2"

\* main() returned 2 after it had parsed a valid value.
C4_Witness ==
    /\ pc = "done"
    /\ result = "exit2"
    /\ Len(requests) = 1
    /\ link = "unopened"

ListenReported(n) ==
    /\ Len(log) >= 2
    /\ log[Len(log)].op = "return" /\ log[Len(log)].who = "listen"
    /\ log[Len(log)].idx = n
    /\ n = 0 => log[Len(log) - 1].res = "none_captured"

\* C5: with a Frame Reader that times out on every call and a clock that
\* advances, the passive phase, once started, eventually returns and reports
\* zero frames; and in no session does a TimeoutError leave the passive
\* phase (every TimeoutError that ends a session comes from the active phase).
C5_ListenAbsorbsTimeouts ==
    /\ (pc = "listen_loop" /\ env = "silent") ~>
          (pc = "after_listen" /\ observed = 0 /\ ListenReported(0))
    /\ [](pending = "TimeoutError" =>
             \E i \in Positions : IsQueryTimeout(log[i]))

\* The passive phase returned after two calls that timed out.
C5_Witness ==
    /\ env = "silent"
    /\ pc = "after_listen"
    /\ observed = 0
    /\ ListenReported(0)
    /\ Cardinality({i \in Positions :
          IsListenRead(log[i]) /\ log[i].res = "timeout"}) >= 2

\* C6: no Frame Reader call of the passive phase starts at or after the
\* deadline, and at most one of them completes at or after the deadline.
C6_NoReadStartsAfterDeadline ==
    /\ \A i \in Positions : IsListenRead(log[i]) => log[i].t0 < deadline
    /\ Cardinality({i \in Positions :
          /\ IsListenRead(log[i])
          /\ log[i].res \in {"frame", "timeout"}
          /\ log[i].t1 >= deadline}) <= 1

\* A call that started before the deadline completed after it.
C6_Witness ==
    \E i \in Positions :
        /\ IsListenRead(log[i])
        /\ log[i].res = "frame"
        /\ log[i].t0 < deadline
        /\ log[i].t1 > deadline

IsListenFrame(e) == IsListenRead(e) /\ e.res = "frame"

IsOkamzitePrint(e) == e.op = "print" /\ e.res = "okamzite"

ListenFrames == SelectSeq(log, IsListenFrame)

OkamzitePrints == SelectSeq(log, IsOkamzitePrint)

\* C7: in the passive phase every frame the Frame Reader returned is emitted
\* exactly once, in arrival order, the k-th emitted line carrying index k and
\* the rendering of the k-th frame; a call that times out emits nothing and
\* consumes no index.
C7_FramesEmittedInOrder ==
    /\ Len(OkamzitePrints) = Len(ListenFrames)
    /\ observed = Len(ListenFrames)
    /\ \A k \in 1..Len(OkamzitePrints) :
          /\ OkamzitePrints[k].idx = k
          /\ OkamzitePrints[k].data = _format_bytes(ListenFrames[k].data)
    /\ \A i \in Positions : IsListenFrame(log[i]) =>
          i < Len(log) /\ IsOkamzitePrint(log[i + 1])
    /\ \A i \in Positions : IsOkamzitePrint(log[i]) =>
          i > 1 /\ IsListenFrame(log[i - 1])

\* Two different frames were emitted, a call timed out before the second.
C7_Witness ==
    /\ Len(OkamzitePrints) >= 2
    /\ OkamzitePrints[1].data # OkamzitePrints[2].data
    /\ \E i, j \in Positions :
          /\ i < j
          /\ IsListenRead(log[i]) /\ log[i].res = "timeout"
          /\ IsOkamzitePrint(log[j]) /\ log[j].idx = 2

Max0(n) == IF n > 0 THEN n ELSE 0

IsWrite(e) == e.op = "write"

IsSentPrint(e) == e.op = "print" /\ e.res = "sent"

IsResponsePrint(e) == e.op = "print" /\ e.res = "response"

\* Sessions whose active phase ran to its end without a failure.
QueryCompleted ==
    /\ requests # <<>>
    /\ pending = "none"
    /\ pc = "exit_with" \/ result = "exit0"

\* The exchanges are sequential in request order with n responses each:
\* the k-th write is the write of request k; request r + 1 is written only
\* after n responses to request r were read and reported; a response is
\* labelled with the request sent last; a phase that completed reported
\* every request as sent and n responses for each.
QuerySequential(n) ==
    /\ \A k \in 1..Len(SelectSeq(log, IsWrite)) :
          SelectSeq(log, IsWrite)[k].req = k
    /\ \A i \in Positions : (IsWrite(log[i]) /\ log[i].req > 1) =>
          /\ Cardinality({j \in 1..(i - 1) :
                /\ log[j].op = "read" /\ log[j].res = "frame"
                /\ log[j].req = log[i].req - 1}) = n
          /\ Cardinality({j \in 1..(i - 1) :
                IsResponsePrint(log[j]) /\ log[j].req = log[i].req - 1}) = n
          /\ \A j \in (i + 1)..Len(log) :
                log[j].who = "query" => log[j].req >= log[i].req
    /\ \A j \in Positions : IsResponsePrint(log[j]) =>
          \E i \in 1..(j - 1) :
              /\ IsSentPrint(log[i])
              /\ log[i].req = log[j].req
              /\ \A m \in (i + 1)..(j - 1) : ~IsSentPrint(log[m])
    /\ QueryCompleted =>
          /\ Len(SelectSeq(log, IsSentPrint)) = Len(requests)
          /\ Len(SelectSeq(log, IsResponsePrint)) = Len(requests) * n

\* C8 as stated: the exchanges of the active phase are strictly sequential
\* in request order, with responses_per_request responses per request; a
\* run without failures has as many "sent" lines as requests and
\* requests * responses_per_request "response" lines.
C8_AsStated == QuerySequential(args.responses_per_request)

\* C8 (amended): the same with max(responses_per_request, 0) responses per
\* request: a zero or negative responses_per_request yields no response.
C8_QuerySequential == QuerySequential(Max0(args.responses_per_request))

\* Two requests with two responses each ran to completion.
C8_Witness ==
    /\ result = "exit0"
    /\ Len(requests) = 2
    /\ args.responses_per_request = 2
    /\ Len(SelectSeq(log, IsResponsePrint)) = 4

\* What request r did on the link and printed, in order.
ReqEvents(r) == SelectSeq(log, LAMBDA e : e.who = "query" /\ e.req = r)

Tag(e) == IF e.op = "print" THEN e.res ELSE e.op

Tags(evs) == [k \in 1..Len(evs) |-> Tag(evs[k])]

\* The steps of one exchange with n responses: write, flush, sent, the
\* settling wait (a delay of zero is no wait), then n times read, response.
ExchangeSteps(n) ==
    <<"write", "flush", "sent">> \o
    (IF args.post_write_delay # 0 THEN <<"sleep">> ELSE <<>>) \o
    [k \in 1..(2 * n) |-> IF k % 2 = 1 THEN "read" ELSE "response"]

IsPrefix(a, b) == Len(a) <= Len(b) /\ \A k \in 1..Len(a) : a[k] = b[k]

\* Request r is over without a failure.
ExchangeCompleted(r) ==
    \/ \E i \in Positions : IsWrite(log[i]) /\ log[i].req = r + 1
    \/ r = Len(requests) /\ QueryCompleted

Succeeded(e) == e.res \notin {"error", "timeout", "interrupt"}

\* Each exchange follows the steps in order, as far as it got, with exactly
\* n Frame Reader calls when it completed; only its last step can have failed.
ExchangesOrdered(nOf(_)) ==
    \A r \in 1..Len(requests) :
        LET evs == ReqEvents(r)
            n == nOf(r)
        IN  /\ IsPrefix(Tags(evs), ExchangeSteps(Max0(n)))
            /\ \A k \in 1..(Len(evs) - 1) : Succeeded(evs[k])
            /\ \A k \in 1..Len(evs) :
                  /\ (evs[k].op = "write" /\ Succeeded(evs[k])) =>
                        evs[k].data = requests[r]
                  /\ evs[k].op = "sleep" => evs[k].idx = args.post_write_delay
                  /\ evs[k].op = "read" => \E m \in 1..(k - 1) :
                        evs[m].op = "flush" /\ Succeeded(evs[m])
            /\ ExchangeCompleted(r) =>
                  /\ Tags(evs) = ExchangeSteps(Max0(n))
                  /\ Cardinality({k \in 1..Len(evs) : evs[k].op = "read"}) = n

StatedCalls(r) == args.responses_per_request

ActualCalls(r) == Max0(args.responses_per_request)

\* C9 as stated: for each request the steps are, in order: write the bytes
\* verbatim, flush, report as sent, wait post_write_delay once, then exactly
\* responses_per_request Frame Reader calls; the wait is not repeated
\* between the reads and no read precedes the flush.
C9_AsStated == ExchangesOrdered(StatedCalls)

\* C9 (amended): the same with exactly max(responses_per_request, 0) Frame
\* Reader calls.
C9_ExchangeStepOrder == ExchangesOrdered(ActualCalls)

\* An exchange with a settling wait and two responses completed.
C9_Witness ==
    /\ args.post_write_delay > 0
    /\ args.responses_per_request = 2
    /\ Len(requests) >= 1
    /\ ExchangeCompleted(1)
    /\ Len(ReqEvents(1)) = 8

\* C10: the passive phase never transmits: no write and no flush happens on
\* the link before _listen_for_initial_values has returned.
C10_ListenNeverTransmits ==
    /\ \A i \in Positions :
          IsOp(log[i], {"write", "flush"}) => ListenReturnedBefore(i)
    /\ pc \in {"listen_start", "listen_loop", "listen_end"} =>
          \A i \in Positions : ~IsOp(log[i], {"write", "flush"})

\* The passive phase returned after a frame and a timeout, nothing written.
C10_Witness ==
    /\ pc = "after_listen"
    /\ observed >= 1
    /\ \E i \in Positions : IsListenRead(log[i]) /\ log[i].res = "timeout"
    /\ \A i \in Positions : ~IsOp(log[i], {"write", "flush"})

IsNoneCaptured(e) == e.op = "print" /\ e.res = "none_captured"

IsListenReturn(e) == e.op = "return" /\ e.who = "listen"

\* C11: "no frames captured" is reported exactly when no frame was observed
\* by the end of the passive phase, once, as its last line; it is no error:
\* the phase returns normally and main() goes on (to the active phase or the
\* no-requests line) and can return 0.
C11_NoFramesInformational ==
    /\ Cardinality({i \in Positions : IsNoneCaptured(log[i])}) <= 1
    /\ \A i \in Positions : IsListenReturn(log[i]) =>
          /\ log[i].idx = Len(ListenFrames)
          /\ IsNoneCaptured(log[i - 1]) <=> Len(ListenFrames) = 0
    /\ \A i \in Positions : IsNoneCaptured(log[i]) =>
          i < Len(log) /\ IsListenReturn(log[i + 1])
    /\ pc = "after_listen" => (pending = "none" /\ result = "running")
    /\ (pc = "done" /\ pending = "none"
           /\ \E i \in Positions : IsListenReturn(log[i])) => result = "exit0"

\* A session that captured no frame sent its request and returned 0.
C11_Witness ==
    /\ result = "exit0"
    /\ \E i \in Positions : IsNoneCaptured(log[i])
    /\ \E i \in Positions : IsSentPrint(log[i])
    /\ \E i \in Positions : IsListenRead(log[i]) /\ log[i].res = "timeout"

IsNoRequestsPrint(e) == e.op = "print" /\ e.res = "no_requests"

\* C12: with an empty request sequence the active phase is a no-op: after the
\* passive phase returned there is no write, flush, settling wait or Frame
\* Reader call; the session prints that no requests were provided, closes
\* the link and returns 0.
C12_NoRequestsNoOp ==
    (args.requests = <<>>) =>
        /\ \A i \in Positions : IsListenReturn(log[i]) =>
              /\ IsPrefix(Tags(SubSeq(log, i + 1, Len(log))),
                          <<"no_requests", "close">>)
              /\ pc = "done" =>
                    /\ Tags(SubSeq(log, i + 1, Len(log))) =
                          <<"no_requests", "close">>
                    /\ result = "exit0"
                    /\ link = "closed"
        /\ \A i \in Positions :
              ~(IsOp(log[i], {"write", "flush", "sleep"})
                \/ (log[i].op = "read" /\ log[i].who = "query"))

\* A session without requests listened, captured a frame and returned 0.
C12_Witness ==
    /\ args.requests = <<>>
    /\ result = "exit0"
    /\ observed >= 1
    /\ \E i \in Positions : IsNoRequestsPrint(log[i])

(***************************************************************************)
(* The hex codec on its own: a text is parsed as main() parses a --request *)
(* value, the bytes are rendered as main() renders a request, and the      *)
(* rendering is parsed and rendered again.                                 *)
(***************************************************************************)
MaxTextLen == 3         \* longest text drawn from the alphabet

CodecAlphabet == {"0", "1", "4", "7", "E", "x", "Z", " ", ","}

DocBare == <<"7", "E", " ", "1", "4", ",", "1", "7", " ", "0", "0">>

DocPrefixed ==
    <<"0", "x", "7", "E", ",", "0", "x", "1", "4", ",", "0", "x", "1", "7", ",", "0", "x", "0", "0">>

DocBytes == <<126, 20, 23, 0>>

TextEmpty == <<>>

TextSeparators == <<" ", ",", " ", ";", " ">>

TextOutOfRange == <<"0", "x", "1", "0", "0">>

TextNoLiteral == <<"Z", "Z">>

\* The texts the specification names, and every text over the alphabet.
CodecTexts ==
    {DocBare, DocPrefixed, TextEmpty, TextSeparators, TextOutOfRange,
     TextNoLiteral}
    \cup UNION {[1..n -> CodecAlphabet] : n \in 0..MaxTextLen}

PairDigits == {"0", "1", "4", "7", "E"}

\* A two-digit token without prefix, then the same digits with 0x.
HexPairs == {<<<<h, l>>, <<"0", "x", h, l>>>> : h \in PairDigits, l \in PairDigits}

CodecRequestLists ==
    {<<t>> : t \in CodecTexts} \cup {<<DocBare, DocPrefixed>>} \cup HexPairs

CodecInit ==
    /\ args \in [requests : CodecRequestLists,
                 responses_per_request : {1},
                 post_write_delay : {0},
                 initial_seconds : {0}]
    /\ env = "any"
    /\ pc = "parse"
    /\ rawIdx = 1
    /\ requests = <<>>
    /\ link = "unopened"
    /\ now = 0
    /\ deadline = 0
    /\ observed = 0
    /\ reqIdx = 0
    /\ respIdx = 0
    /\ pending = "none"
    /\ result = "running"
    /\ log = <<>>

\* _format_bytes(request) of the parsed text, as in the "Sent request" line.
CodecFormat ==
    /\ pc = "parse"
    /\ Len(args.requests) = 1
    /\ rawIdx > Len(args.requests)
    /\ log' = Append(log, PrintEv("main", "rendered", 1, 0,
                                  _format_bytes(requests[1])))
    /\ pc' = "rendered"
    /\ UNCHANGED <<args, env, rawIdx, requests, link, now, deadline, observed,
                   reqIdx, respIdx, pending, result>>

\* _parse_hex_sequence of the rendering, then _format_bytes of the result.
CodecReparse ==
    /\ pc = "rendered"
    /\ LET r == _parse_hex_sequence(log[1].data)
       IN  IF r.ok
           THEN /\ requests' = Append(requests, r.bytes)
                /\ log' = Append(log, PrintEv("main", "rendered", 2, 0,
                                              _format_bytes(r.bytes)))
                /\ result' = "exit0"
           ELSE /\ log' = Append(log, PrintEv("main", "parse_error", 2, 0,
                                              log[1].data))
                /\ result' = "exit2"
                /\ UNCHANGED requests
    /\ pc' = "done"
    /\ UNCHANGED <<args, env, rawIdx, link, now, deadline, observed, reqIdx,
                   respIdx, pending>>

CodecNext ==
    \/ ParseRequest
    \/ CodecFormat
    \/ CodecReparse

CodecSpec == CodecInit /\ [][CodecNext]_vars

\* C13: _parse_hex_sequence("7E 14,17 00") and
\* _parse_hex_sequence("0x7E,0x14,0x17,0x00") both succeed and both return
\* the bytes 7E 14 17 00; a two-digit hex token without prefix and the same
\* digits with 0x both parse, to the same byte.
C13_BareEqualsPrefixed ==
    /\ args.requests = <<DocBare, DocPrefixed>> =>
          /\ result # "exit2"
          /\ rawIdx > 2 => requests = <<DocBytes, DocBytes>>
    /\ args.requests \in HexPairs =>
          /\ result # "exit2"
          /\ rawIdx > 2 => requests[1] = requests[2]

\* C14: for every text _parse_hex_sequence accepts, parsing the rendering of
\* its bytes succeeds and gives the same bytes, and rendering those gives the
\* same rendering.
C14_RoundTrip ==
    (Len(args.requests) = 1 /\ pc = "done" /\ rawIdx > 1) =>
        /\ result = "exit0"
        /\ Len(requests) = 2
        /\ requests[2] = requests[1]
        /\ log[2].data = log[1].data

NoTokens(text) == \A i \in 1..Len(text) : IsSeparator(text[i])

TokenFails(token) ==
    \/ ~IntBase0(token).ok
    \/ IntBase0(token).value < 0
    \/ IntBase0(token).value > 255

IsInterrupted(e) == e.res = "interrupt"

\* C16: once a blocking call of the open session (a Frame Reader call of
\* either phase, the settling wait, a write or a flush) is interrupted,
\* nothing more is printed and nothing more is read or written: the close
\* of the link is all that follows, and the link is closed when main() ends.
C16_InterruptStopsSession ==
    \A i \in Positions : IsInterrupted(log[i]) =>
        /\ \A j \in (i + 1)..Len(log) : log[j].op = "close"
        /\ pending = "KeyboardInterrupt"
        /\ pc \in {"exit_with", "done"}
        /\ pc = "done" =>
              /\ link = "closed"
              /\ CloseCount = 1
              /\ result = "KeyboardInterrupt"

\* The settling wait of the second request was interrupted; the session
\* ended with the link closed.
C16_Witness ==
    /\ pc = "done"
    /\ link = "closed"
    /\ result = "KeyboardInterrupt"
    /\ \E i \in Positions :
          IsInterrupted(log[i]) /\ log[i].op = "sleep" /\ log[i].req = 2

IsLinkFailure(e) == e.res = "error" /\ e.op \in {"read", "write", "flush"}

\* C17: a failure of the Frame Reader or the link that is no TimeoutError is
\* fatal in both phases: only the close of the link follows it; raised in
\* the passive phase it is not absorbed: the phase never returns, no request
\* is written, and the link is closed before main() ends with the error.
C17_LinkErrorFatal ==
    \A i \in Positions : IsLinkFailure(log[i]) =>
        /\ \A j \in (i + 1)..Len(log) : log[j].op = "close"
        /\ pending = "LinkError"
        /\ pc \in {"exit_with", "done"}
        /\ log[i].who = "listen" =>
              \A j \in Positions : ~IsWrite(log[j]) /\ ~IsListenReturn(log[j])
        /\ pc = "done" =>
              /\ link = "closed"
              /\ CloseCount = 1
              /\ result = "LinkError"

\* The passive phase absorbed a timeout, then a Frame Reader call failed; the
\* request of the session was never written and the link is closed.
C17_Witness ==
    /\ pc = "done"
    /\ result = "LinkError"
    /\ link = "closed"
    /\ requests # <<>>
    /\ \E i, j \in Positions :
          /\ i < j
          /\ IsListenRead(log[i]) /\ log[i].res = "timeout"
          /\ IsListenRead(log[j]) /\ IsLinkFailure(log[j])

\* The frames of the passive phase whose call ended at or after the deadline.
LateFrames == {i \in Positions : IsListenFrame(log[i]) /\ log[i].t1 >= deadline}

FramesUpTo(i) == Cardinality({j \in 1..i : IsListenFrame(log[j])})

\* C18: the deadline is checked between Frame Reader calls only: a frame
\* whose call started before the deadline and ended at or after it is still
\* counted and printed with the next index; it is the last call of the
\* phase, so at most one such frame is printed.
C18_LateFrameStillEmitted ==
    /\ Cardinality(LateFrames) <= 1
    /\ \A i \in LateFrames :
          /\ log[i].t0 < deadline
          /\ i < Len(log)
          /\ IsOkamzitePrint(log[i + 1])
          /\ log[i + 1].idx = FramesUpTo(i)
          /\ log[i + 1].data = _format_bytes(log[i].data)
          /\ \A j \in (i + 1)..Len(log) : ~IsListenRead(log[j])

\* A frame that arrived after the deadline was printed as frame 2.
C18_Witness ==
    \E i \in LateFrames :
        /\ log[i].t1 > deadline
        /\ i < Len(log)
        /\ IsOkamzitePrint(log[i + 1])
        /\ log[i + 1].idx = 2

IsParseError(e) == e.op = "print" /\ e.res = "parse_error"

ParseErrors == SelectSeq(log, IsParseError)

\* The position of the first --request value that does not parse.
FirstBad ==
    CHOOSE i \in 1..Len(args.requests) :
        /\ ~ParsesOk[args.requests[i]]
        /\ \A j \in 1..(i - 1) : ParsesOk[args.requests[j]]

\* C19: parsing stops at the first --request value that fails: one parse
\* error is printed, for that value; no later value is parsed or reported;
\* the requests parsed before it are dropped without being sent.
C19_ParsingStopsAtFirstFailure ==
    /\ Len(ParseErrors) <= 1
    /\ Len(ParseErrors) = 1 =>
          /\ result = "exit2"
          /\ pc = "done"
          /\ log = ParseErrors
          /\ ParseErrors[1].req = FirstBad
          /\ ParseErrors[1].data = args.requests[FirstBad]
          /\ rawIdx = FirstBad
          /\ Len(requests) = FirstBad - 1
    /\ result = "exit2" => Len(ParseErrors) = 1

\* Two values that do not parse: only the first was reported.
C19_Witness ==
    /\ args.requests = <<ReqBad, ReqBad>>
    /\ result = "exit2"
    /\ Len(ParseErrors) = 1

\* C20: with responses_per_request zero or negative every request is still
\* written, flushed and reported as sent, in order, and followed by the
\* settling wait (a delay of zero is no wait); no Frame Reader call is made
\* in the active phase and the session cannot end with TimeoutError.
C20_NoReadsWhenCountNotPositive ==
    (args.responses_per_request <= 0) =>
        /\ \A i \in Positions : ~(log[i].op = "read" /\ log[i].who = "query")
        /\ pending # "TimeoutError"
        /\ result # "TimeoutError"
        /\ \A r \in 1..Len(requests) : ExchangeCompleted(r) =>
              /\ Tags(ReqEvents(r)) =
                    <<"write", "flush", "sent">> \o
                    (IF args.post_write_delay # 0 THEN <<"sleep">> ELSE <<>>)
              /\ \A k \in 1..Len(ReqEvents(r)) : Succeeded(ReqEvents(r)[k])
              /\ ReqEvents(r)[1].data = requests[r]
        /\ QueryCompleted =>
              /\ Len(SelectSeq(log, IsSentPrint)) = Len(requests)
              /\ \A k \in 1..Len(requests) :
                    /\ SelectSeq(log, IsSentPrint)[k].req = k
                    /\ SelectSeq(log, IsSentPrint)[k].data =
                          _format_bytes(requests[k])

\* Two requests with responses_per_request = -1: both sent, each followed by
\* the settling wait, no Frame Reader call, exit code 0.
C20_Witness ==
    /\ args.responses_per_request = -1
    /\ args.post_write_delay > 0
    /\ Len(requests) = 2
    /\ result = "exit0"
    /\ Cardinality({i \in Positions : log[i].op = "sleep"}) = 2

====
